---- MODULE Spec2Model ----
(***************************************************************************)
(* lib_io: the FifoDataport, a single producer / single consumer byte FIFO *)
(* living in a dataport shared by two components.  The control block       *)
(* (CharFifo dataStruct: in, out, first, last, capacity) is followed by    *)
(* the data bytes.  The producer owns in, last and the free bytes; the     *)
(* consumer owns out and first.  Every access to a field of the dataport   *)
(* is one step of the model.                                               *)
(*                                                                         *)
(* The streams: an InputFifoStream reads, gets and skips the bytes of its  *)
(* readFifo, a FifoStream adds writeFifo with write and flush.  Both FIFOs *)
(* are process-local CharFifos used by one thread under cooperative        *)
(* scheduling, so a call that does not delay is one step.                  *)
(***************************************************************************)
EXTENDS Integers, Sequences, FiniteSets, TLC

\* ------------------------------------------------------------------ bounds
MaxCapacity == 2      \* capacities 1..MaxCapacity are constructed
MaxTotal == 3         \* bytes the producer stores in one behaviour
MaxByte == 1          \* byte values are 0..MaxByte
MaxLen == 2           \* longest caller buffer of FifoDataport_write / _read
CounterBits == 4      \* width of size_t in the model: counters wrap at 2^CounterBits
MaxChar == 1          \* the bytes of a stream are 0..MaxChar; 0 ends a C string
MaxSupply == 2        \* bytes pushed into a stream's FIFO in one behaviour
MaxCalls == 2         \* calls a stream's user makes in one behaviour
MaxTimeout == 1       \* timeoutTicks of InputFifoStream_get is 0..MaxTimeout
WrapCapacity == 3     \* capacities 1..WrapCapacity are run across the wrap of the counters

Bytes == 0 .. MaxByte
CounterMod == 2 ^ CounterBits
NullPtr == 0 - 1      \* a NULL buffer pointer; slot indices are 0..capacity-1

Min(a, b) == IF a < b THEN a ELSE b

\* All byte sequences of length lo..hi.
ByteSeqs(lo, hi) == UNION { [1 .. n -> Bytes] : n \in lo .. hi }

VARIABLES
    capacity,   \* dataStruct.capacity, fixed by FifoDataport_ctor
    in,         \* dataStruct.in: bytes ever added (producer's field)
    out,        \* dataStruct.out: bytes ever removed (consumer's field)
    first,      \* dataStruct.first: slot of the oldest byte (consumer's field)
    last,       \* dataStruct.last: next free slot (producer's field)
    data,       \* data[]: the bytes behind the control block
    seen,       \* what the peer's loads return: [in, data] for the consumer, [out] for the producer
    mode,       \* "interleaved", "sequential" (calls do not overlap) or "relaxed"
                \* (a store becomes visible to the peer at some later moment)
    ndebug,     \* TRUE: release build, assert() compiled out
    p,          \* the producer: position and locals
    c,          \* the consumer: position and locals
    stored,     \* history: every byte the producer has stored, in order
    loaded,     \* history: every byte the consumer has loaded, in order
    hist,       \* history: the last two calls begun, oldest first (kept for
                \* calls that do not overlap)
    readFifo,   \* InputFifoStream.readFifo: the stream's inbound CharFifo
    writeFifo,  \* FifoStream.writeFifo: the stream's outbound CharFifo
    tickCount,  \* System_getTickCount()
    u,          \* the user of the stream: position, arguments and locals
    pushedRead, \* history: every byte pushed into readFifo, in order
    pushedWrite, \* history: every byte pushed into writeFifo, in order
    stream      \* the Stream object: its vtable pointer, and which constructor
                \* was called on it with what result

vars == <<capacity, in, out, first, last, data, seen, mode, ndebug, p, c,
          stored, loaded, hist, readFifo, writeFifo, tickCount, u,
          pushedRead, pushedWrite, stream>>

\* The state of the streams, which the calls on a dataport leave alone.
Streams == <<readFifo, writeFifo, tickCount, u, pushedRead, pushedWrite, stream>>

\* --------------------------------------------------------- CharFifo (FifoT)
\* size() = in - out on size_t.
CharFifo_getSize(i, o) == (i - o) % CounterMod

CharFifo_isEmpty(i, o) == i = o

CharFifo_isFull(i, o, cap) == CharFifo_getSize(i, o) = cap

\* push and pop advance last / first by one slot, modulo the capacity.
CharFifo_next(idx, cap) == (idx + 1) % cap

\* ------------------------------------------------------------ FifoDataport
\* Faulty variant of FifoDataport_getFree: one byte too many.
FifoDataport_getFree_plusOne(cap, i, o) == (cap - CharFifo_getSize(i, o) + 1) % CounterMod

\* capacity - used on size_t (the assertion used <= capacity is in P_add_free
\* and in the queries).
FifoDataport_getFree(cap, i, o) == (cap - CharFifo_getSize(i, o)) % CounterMod

\* Faulty variants of FifoDataport_getContiguous: the length taken to the end of
\* the array whatever in says; the pointer at the start of the array; the
\* comparison first <= last.
FifoDataport_getContiguous_toEnd(i, o, f, cap) ==
    IF i = o
    THEN [buffer |-> NullPtr, len |-> 0]
    ELSE [buffer |-> f, len |-> cap - f]

FifoDataport_getContiguous_slot0(i, o, f, cap) ==
    IF i = o
    THEN [buffer |-> NullPtr, len |-> 0]
    ELSE LET l == i % cap
         IN  [buffer |-> 0, len |-> IF f < l THEN l - f ELSE cap - f]

FifoDataport_getContiguous_le(i, o, f, cap) ==
    IF i = o
    THEN [buffer |-> NullPtr, len |-> 0]
    ELSE LET l == i % cap
         IN  [buffer |-> f, len |-> IF f <= l THEN l - f ELSE cap - f]

\* Faulty variant of FifoDataport_getContiguous: the end of the window is
\* taken from the stored field last.
FifoDataport_getContiguous_storedLast(i, o, f, cap) ==
    IF i = o
    THEN [buffer |-> NullPtr, len |-> 0]
    ELSE [buffer |-> f, len |-> IF f < last THEN last - f ELSE cap - f]

\* Faulty variant of FifoDataport_getContiguous: the FIFO is taken for empty
\* when the two indices are equal, which they are also when it is full.
FifoDataport_getContiguous_emptyByIndex(i, o, f, cap) ==
    LET l == i % cap
    IN  IF f = l
        THEN [buffer |-> NullPtr, len |-> 0]
        ELSE [buffer |-> f, len |-> IF f < l THEN l - f ELSE cap - f]

\* The window of readable bytes, from the snapshot (i, o) of in and out and
\* the consumer's own first.
FifoDataport_getContiguous(i, o, f, cap) ==
    IF i = o
    THEN [buffer |-> NullPtr, len |-> 0]
    ELSE LET l == i % cap
         IN  [buffer |-> f, len |-> IF f < l THEN l - f ELSE cap - f]

\* Faulty variants of FifoDataport_getContiguousFree: no full check; the
\* comparison first >= last; the length taken to the end of the array whatever
\* out says.
FifoDataport_getContiguousFree_noFull(cap, i, o, l) ==
    LET f == o % cap
    IN  [buffer |-> l, len |-> IF f > l THEN f - l ELSE cap - l]

FifoDataport_getContiguousFree_ge(cap, i, o, l) ==
    IF (o + cap) % CounterMod = i
    THEN [buffer |-> NullPtr, len |-> 0]
    ELSE LET f == o % cap
         IN  [buffer |-> l, len |-> IF f >= l THEN f - l ELSE cap - l]

FifoDataport_getContiguousFree_toEnd(cap, i, o, l) ==
    IF (o + cap) % CounterMod = i
    THEN [buffer |-> NullPtr, len |-> 0]
    ELSE [buffer |-> l, len |-> cap - l]

\* The window of free bytes, from the snapshot (i, o) and the producer's own last.
FifoDataport_getContiguousFree(cap, i, o, l) ==
    IF (o + cap) % CounterMod = i
    THEN [buffer |-> NullPtr, len |-> 0]
    ELSE LET f == o % cap
         IN  [buffer |-> l, len |-> IF f > l THEN f - l ELSE cap - l]

\* Faulty variants of the index update: > for >=; no subtraction at all.
UpdatedIndex_gt(idx, amount, cap) ==
    IF idx + amount > cap THEN idx + amount - cap ELSE idx + amount

UpdatedIndex_noWrap(idx, amount, cap) == idx + amount

\* updated_first / updated_last: one conditional subtraction of the capacity.
UpdatedIndex(idx, amount, cap) ==
    IF idx + amount >= cap THEN idx + amount - cap ELSE idx + amount

\* out += amount, in += amount on size_t.
UpdatedCounter(cnt, amount) == (cnt + amount) % CounterMod

\* ----------------------------------------------- CharFifo as an object
\* A CharFifo: the control fields and the caller's buffer, here with
\* capacity = the buffer's size.
Chars == 0 .. MaxChar
\* The tick counter is kept modulo TickMod, more than any time a get measures.
TickMod == MaxTimeout + 2
EOF_ == CounterMod - 1      \* EOF (-1) returned as a size_t
Unset == 0 - 2              \* a cell of a caller's buffer that was never stored to

CharSeqs(lo, hi) == UNION { [1 .. n -> Chars] : n \in lo .. hi }

EmptyFifo(cap, d) ==
    [capacity |-> cap, in |-> 0, out |-> 0, first |-> 0, last |-> 0, data |-> d]

\* push: fails on a full FIFO; else the byte goes to slot last, last and in advance.
CharFifo_push(f, b) ==
    IF CharFifo_isFull(f.in, f.out, f.capacity)
    THEN [fifo |-> f, isPushed |-> FALSE]
    ELSE [fifo |-> [f EXCEPT !.data[f.last] = b,
                             !.last = CharFifo_next(f.last, f.capacity),
                             !.in = UpdatedCounter(f.in, 1)],
          isPushed |-> TRUE]

\* getFirst: the slot of the oldest byte, or NULL on an empty FIFO.
CharFifo_getFirst(f) == IF CharFifo_isEmpty(f.in, f.out) THEN NullPtr ELSE f.first

\* pop: nothing on an empty FIFO; else first and out advance.
CharFifo_pop(f) ==
    IF CharFifo_isEmpty(f.in, f.out) THEN f
    ELSE [f EXCEPT !.first = CharFifo_next(f.first, f.capacity),
                   !.out = UpdatedCounter(f.out, 1)]

\* clear: pop until the FIFO is empty.
RECURSIVE CharFifo_clear(_)
CharFifo_clear(f) ==
    IF CharFifo_isEmpty(f.in, f.out) THEN f ELSE CharFifo_clear(CharFifo_pop(f))

\* The bytes a FIFO holds, oldest first.
Content(f) ==
    [k \in 1 .. CharFifo_getSize(f.in, f.out) |-> f.data[(f.first + k - 1) % f.capacity]]

\* buff[i] = b on a caller's buffer (cells are numbered from 0).
StoreAt(buff, i, b) ==
    [k \in 1 .. (IF i + 1 > Len(buff) THEN i + 1 ELSE Len(buff)) |->
        IF k = i + 1 THEN b ELSE IF k <= Len(buff) THEN buff[k] ELSE Unset]

\* strchr on a C string (its characters, all non-zero, then the terminating 0):
\* the position of the first occurrence of ch, the terminator included, or NULL.
strchr(str, ch) ==
    IF \E k \in 1 .. Len(str) : str[k] = ch
    THEN CHOOSE k \in 1 .. Len(str) : str[k] = ch /\ \A j \in 1 .. k - 1 : str[j] # ch
    ELSE IF ch = 0 THEN Len(str) + 1 ELSE NullPtr

\* A NULL char pointer, told apart from every C string.
NullStr == <<NullPtr>>

\* The delimiter arguments: NULL, the empty C string, or a C string of one
\* character.
DelimArgs == {NullStr, <<>>} \cup { <<ch>> : ch \in Chars \ {0} }

\* A Stream object: no constructor called yet (the vtable pointer was never
\* stored to), or constructed by InputFifoStream_ctor, by FifoStream_ctor
\* with the buffer sizes given.
\* built: the members CharFifo_ctor has succeeded on; destroyed: the members
\* CharFifo_dtor was called on, call by call.
NoStream ==
    [vtable |-> "none", ctor |-> "none", retval |-> FALSE,
     writeBufSize |-> 0, readBufSize |-> 0, built |-> {}, destroyed |-> <<>>]
AnInputFifoStream(readBufSize) ==
    [vtable |-> "InputFifoStream_vtable", ctor |-> "InputFifoStream_ctor", retval |-> TRUE,
     writeBufSize |-> 0, readBufSize |-> readBufSize,
     built |-> {"readFifo"}, destroyed |-> <<>>]
AFifoStream(writeBufSize, readBufSize) ==
    [vtable |-> "FifoStream_vtable", ctor |-> "FifoStream_ctor", retval |-> TRUE,
     writeBufSize |-> writeBufSize, readBufSize |-> readBufSize,
     built |-> {"writeFifo", "readFifo"}, destroyed |-> <<>>]

\* in0, out0: the counters of the FIFO when the call was made; fatal: the call
\* has logged with Debug_LOG_FATAL; todo: the local of Stream_writeAll.
UIdle == [pc |-> "idle", op |-> "none", length |-> 0, buffer |-> <<>>, i |-> 0,
          foundDelim |-> FALSE, delims |-> NullStr, timeoutTicks |-> 0,
          timeBase |-> 0, ret |-> 0, in0 |-> 0, out0 |-> 0, src |-> <<>>,
          calls |-> 0, fatal |-> FALSE, todo |-> 0]

\* The user's record at the start of its next call.
NextCall == [UIdle EXCEPT !.calls = u.calls + 1]

\* ---------------------------------------------------------------- stores
\* A store of the producer to in, and to a data byte; of the consumer to out.
\* Under relaxed memory the peer sees the new value only after Propagate.
SeenAfterIn(v) == IF mode = "relaxed" THEN seen ELSE [seen EXCEPT !.in = v]
SeenAfterData(slot, b) == IF mode = "relaxed" THEN seen ELSE [seen EXCEPT !.data[slot] = b]
SeenAfterOut(v) == IF mode = "relaxed" THEN seen ELSE [seen EXCEPT !.out = v]

Push2(h, op) ==
    IF mode # "sequential" THEN h
    ELSE IF Len(h) < 2 THEN Append(h, op) ELSE <<h[2], op>>

\* calls: how many times in a row the side has made the same query.
PIdle == [pc |-> "idle", op |-> "none", in |-> 0, out |-> 0, buffer |-> NullPtr,
          len |-> 0, amount |-> 0, i |-> 0, src |-> <<>>, ret |-> 0, calls |-> 0]

CIdle == [pc |-> "idle", op |-> "none", in |-> 0, out |-> 0, first |-> 0,
          buffer |-> NullPtr, len |-> 0, amount |-> 0, want |-> 0,
          got |-> <<>>, ret |-> 0, calls |-> 0]

InitShared ==
    /\ capacity \in 1 .. MaxCapacity
    /\ in = 0 /\ out = 0 /\ first = 0 /\ last = 0
    /\ data \in [0 .. capacity - 1 -> Bytes]
    /\ seen = [in |-> 0, out |-> 0, data |-> data]
    /\ p = PIdle
    /\ c = CIdle
    /\ stored = <<>>
    /\ loaded = <<>>
    /\ hist = <<>>

\* The streams are not in use: one-byte buffers, empty, and no call made.
StreamsUnused ==
    /\ readFifo = EmptyFifo(1, [j \in 0 .. 0 |-> 0])
    /\ writeFifo = EmptyFifo(1, [j \in 0 .. 0 |-> 0])
    /\ tickCount = 0
    /\ u = UIdle
    /\ pushedRead = <<>>
    /\ pushedWrite = <<>>
    /\ stream = NoStream

Init == InitShared /\ StreamsUnused /\ mode = "interleaved" /\ ndebug \in BOOLEAN

Shared == <<capacity, in, out, first, last, data, seen>>

\* ================================================================ producer
\* --- FifoDataport_getContiguousFree, the stores into the window, FifoDataport_add
P_getContiguousFree_call ==
    /\ p.pc = "idle"
    /\ Len(stored) < MaxTotal
    /\ p' = [PIdle EXCEPT !.pc = "gcf_in", !.op = "getContiguousFree"]
    /\ hist' = Push2(hist, "getContiguousFree")
    /\ UNCHANGED <<Shared, mode, ndebug, Streams, c, stored, loaded>>

P_gcf_in ==
    /\ p.pc = "gcf_in"
    /\ p' = [p EXCEPT !.pc = "gcf_out", !.in = in]
    /\ UNCHANGED <<Shared, mode, ndebug, Streams, c, stored, loaded, hist>>

P_gcf_out ==
    /\ p.pc = "gcf_out"
    /\ p' = [p EXCEPT !.pc = "gcf_ret", !.out = seen.out]
    /\ UNCHANGED <<Shared, mode, ndebug, Streams, c, stored, loaded, hist>>

\* The full check, the read of last, and the length; then the caller picks how
\* many bytes of the window it fills.
P_gcf_ret ==
    /\ p.pc = "gcf_ret"
    /\ LET w == FifoDataport_getContiguousFree(capacity, p.in, p.out, last)
       IN  IF w.len = 0
           THEN p' = [p EXCEPT !.pc = "idle", !.buffer = w.buffer, !.len = 0, !.ret = 0]
           ELSE \E n \in 1 .. Min(w.len, MaxTotal - Len(stored)) :
                    p' = [p EXCEPT !.pc = "store", !.buffer = w.buffer,
                                   !.len = w.len, !.ret = w.len, !.amount = n]
    /\ UNCHANGED <<Shared, mode, ndebug, Streams, c, stored, loaded, hist>>

P_store ==
    /\ p.pc = "store"
    /\ p.i < p.amount
    /\ \E b \in Bytes :
          /\ data' = [data EXCEPT ![p.buffer + p.i] = b]
          /\ seen' = SeenAfterData(p.buffer + p.i, b)
          /\ stored' = Append(stored, b)
          /\ p' = [p EXCEPT !.i = p.i + 1, !.src = Append(p.src, b)]
    /\ UNCHANGED <<capacity, in, out, first, last, mode, ndebug, Streams, c, loaded, hist>>

\* FifoDataport_add: getFree (with its assertion used <= capacity) and the check
\* of amount against it.  A failed assert() ends a debug build; a release build
\* goes on.
P_add_free ==
    /\ p.pc = "store"
    /\ p.i = p.amount
    /\ LET used == CharFifo_getSize(in, seen.out)
           free == FifoDataport_getFree(capacity, in, seen.out)
       IN  p' = [p EXCEPT !.op = "add",
                          !.pc = IF (used > capacity \/ p.amount > free) /\ ~ndebug
                                 THEN "abort" ELSE "add_last"]
    /\ hist' = Push2(hist, "add")
    /\ UNCHANGED <<Shared, mode, ndebug, Streams, c, stored, loaded>>

P_add_last ==
    /\ p.pc = "add_last"
    /\ last' = UpdatedIndex(last, p.amount, capacity)
    /\ p' = [p EXCEPT !.pc = "add_in"]
    /\ UNCHANGED <<capacity, in, out, first, data, seen, mode, ndebug, Streams, c,
                   stored, loaded, hist>>

P_add_in ==
    /\ p.pc = "add_in"
    /\ in' = UpdatedCounter(in, p.amount)
    /\ seen' = SeenAfterIn(in')
    /\ p' = [p EXCEPT !.pc = "idle"]
    /\ UNCHANGED <<capacity, out, first, last, data, mode, ndebug, Streams, c,
                   stored, loaded, hist>>

\* --- FifoDataport_write: CharFifo_push of one byte after the other
P_write_call ==
    /\ p.pc = "idle"
    /\ \E s \in ByteSeqs(1, Min(MaxLen, MaxTotal - Len(stored))) :
          p' = [PIdle EXCEPT !.pc = "w_full", !.op = "write", !.src = s, !.len = Len(s)]
    /\ hist' = Push2(hist, "write")
    /\ UNCHANGED <<Shared, mode, ndebug, Streams, c, stored, loaded>>

\* CharFifo_push: isFull; a full FIFO ends the loop.
P_w_full ==
    /\ p.pc = "w_full"
    /\ p' = IF CharFifo_isFull(in, seen.out, capacity)
            THEN [p EXCEPT !.pc = "idle", !.ret = p.i]
            ELSE [p EXCEPT !.pc = "w_data"]
    /\ UNCHANGED <<Shared, mode, ndebug, Streams, c, stored, loaded, hist>>

P_w_data ==
    /\ p.pc = "w_data"
    /\ data' = [data EXCEPT ![last] = p.src[p.i + 1]]
    /\ seen' = SeenAfterData(last, p.src[p.i + 1])
    /\ stored' = Append(stored, p.src[p.i + 1])
    /\ p' = [p EXCEPT !.pc = "w_last"]
    /\ UNCHANGED <<capacity, in, out, first, last, mode, ndebug, Streams, c, loaded, hist>>

P_w_last ==
    /\ p.pc = "w_last"
    /\ last' = CharFifo_next(last, capacity)
    /\ p' = [p EXCEPT !.pc = "w_in"]
    /\ UNCHANGED <<capacity, in, out, first, data, seen, mode, ndebug, Streams, c,
                   stored, loaded, hist>>

\* in++, written++, and the loop test written < len.
P_w_in ==
    /\ p.pc = "w_in"
    /\ in' = UpdatedCounter(in, 1)
    /\ seen' = SeenAfterIn(in')
    /\ p' = IF p.i + 1 < p.len
            THEN [p EXCEPT !.pc = "w_full", !.i = p.i + 1]
            ELSE [p EXCEPT !.pc = "idle", !.i = p.i + 1, !.ret = p.i + 1]
    /\ UNCHANGED <<capacity, out, first, last, data, mode, ndebug, Streams, c,
                   stored, loaded, hist>>

Producer ==
    \/ P_getContiguousFree_call \/ P_gcf_in \/ P_gcf_out \/ P_gcf_ret
    \/ P_store \/ P_add_free \/ P_add_last \/ P_add_in
    \/ P_write_call \/ P_w_full \/ P_w_data \/ P_w_last \/ P_w_in

\* ================================================================ consumer
\* --- FifoDataport_getContiguous, the loads from the window, FifoDataport_remove
C_getContiguous_call ==
    /\ c.pc = "idle"
    /\ c' = [CIdle EXCEPT !.pc = "gc_in", !.op = "getContiguous"]
    /\ hist' = Push2(hist, "getContiguous")
    /\ UNCHANGED <<Shared, mode, ndebug, Streams, p, stored, loaded>>

C_gc_in ==
    /\ c.pc = "gc_in"
    /\ c' = [c EXCEPT !.pc = "gc_out", !.in = seen.in]
    /\ UNCHANGED <<Shared, mode, ndebug, Streams, p, stored, loaded, hist>>

C_gc_out ==
    /\ c.pc = "gc_out"
    /\ c' = [c EXCEPT !.pc = "gc_ret", !.out = out]
    /\ UNCHANGED <<Shared, mode, ndebug, Streams, p, stored, loaded, hist>>

\* The empty check, the read of first, and the length.  A caller of
\* getContiguous then picks how many bytes of the window it takes; within
\* FifoDataport_read (getFirst) one byte is taken, or the loop ends on NULL.
C_gc_ret ==
    /\ c.pc = "gc_ret"
    /\ LET w == FifoDataport_getContiguous(c.in, c.out, first, capacity)
       IN  IF c.op = "read"
           THEN c' = IF w.buffer = NullPtr
                     THEN [c EXCEPT !.pc = "idle", !.ret = Len(c.got), !.buffer = NullPtr]
                     ELSE [c EXCEPT !.pc = "r_load", !.first = first, !.buffer = w.buffer]
           ELSE IF w.len = 0
                THEN c' = [c EXCEPT !.pc = "idle", !.buffer = w.buffer, !.len = 0, !.ret = 0]
                ELSE \E n \in 1 .. w.len :
                        c' = [c EXCEPT !.pc = "load", !.first = first, !.buffer = w.buffer,
                                       !.len = w.len, !.ret = w.len, !.amount = n]
    /\ UNCHANGED <<Shared, mode, ndebug, Streams, p, stored, loaded, hist>>

C_load ==
    /\ c.pc = "load"
    /\ Len(c.got) < c.amount
    /\ LET b == seen.data[c.buffer + Len(c.got)]
       IN  /\ loaded' = Append(loaded, b)
           /\ c' = [c EXCEPT !.got = Append(c.got, b)]
    /\ UNCHANGED <<Shared, mode, ndebug, Streams, p, stored, hist>>

\* FifoDataport_remove: getSize and the check of amount against it.  A failed
\* assert() ends a debug build; a release build goes on.
C_rm_size ==
    /\ c.pc = "load"
    /\ Len(c.got) = c.amount
    /\ LET used == CharFifo_getSize(seen.in, out)
       IN  c' = [c EXCEPT !.op = "remove",
                          !.pc = IF c.amount > used /\ ~ndebug THEN "abort" ELSE "rm_first"]
    /\ hist' = Push2(hist, "remove")
    /\ UNCHANGED <<Shared, mode, ndebug, Streams, p, stored, loaded>>

\* Faulty variant of the store of updated_first: it goes to last.
C_rm_first_toLast ==
    /\ c.pc = "rm_first"
    /\ last' = UpdatedIndex(first, c.amount, capacity)
    /\ c' = [c EXCEPT !.pc = "rm_out"]
    /\ UNCHANGED <<capacity, in, out, first, data, seen, mode, ndebug, Streams, p,
                   stored, loaded, hist>>

C_rm_first ==
    /\ c.pc = "rm_first"
    /\ first' = UpdatedIndex(first, c.amount, capacity)
    /\ c' = [c EXCEPT !.pc = "rm_out"]
    /\ UNCHANGED <<capacity, in, out, last, data, seen, mode, ndebug, Streams, p,
                   stored, loaded, hist>>

C_rm_out ==
    /\ c.pc = "rm_out"
    /\ out' = UpdatedCounter(out, c.amount)
    /\ seen' = SeenAfterOut(out')
    /\ c' = [c EXCEPT !.pc = "idle"]
    /\ UNCHANGED <<capacity, in, first, last, data, mode, ndebug, Streams, p,
                   stored, loaded, hist>>

\* --- FifoDataport_read: getFirst, the load, CharFifo_pop, byte by byte
C_read_call ==
    /\ c.pc = "idle"
    /\ \E n \in 1 .. MaxLen :
          c' = [CIdle EXCEPT !.pc = "gc_in", !.op = "read", !.want = n]
    /\ hist' = Push2(hist, "read")
    /\ UNCHANGED <<Shared, mode, ndebug, Streams, p, stored, loaded>>

\* target[read++] = *source
C_r_load ==
    /\ c.pc = "r_load"
    /\ LET b == seen.data[c.buffer]
       IN  /\ loaded' = Append(loaded, b)
           /\ c' = [c EXCEPT !.pc = "r_first", !.got = Append(c.got, b)]
    /\ UNCHANGED <<Shared, mode, ndebug, Streams, p, stored, hist>>

\* CharFifo_pop: first advances by one slot ...
C_r_first ==
    /\ c.pc = "r_first"
    /\ first' = CharFifo_next(first, capacity)
    /\ c' = [c EXCEPT !.pc = "r_out"]
    /\ UNCHANGED <<capacity, in, out, last, data, seen, mode, ndebug, Streams, p,
                   stored, loaded, hist>>

\* ... and out++; then the loop test read < len.
C_r_out ==
    /\ c.pc = "r_out"
    /\ out' = UpdatedCounter(out, 1)
    /\ seen' = SeenAfterOut(out')
    /\ c' = IF Len(c.got) < c.want
            THEN [c EXCEPT !.pc = "gc_in"]
            ELSE [c EXCEPT !.pc = "idle", !.ret = Len(c.got)]
    /\ UNCHANGED <<capacity, in, first, last, data, mode, ndebug, Streams, p,
                   stored, loaded, hist>>

Consumer ==
    \/ C_getContiguous_call \/ C_gc_in \/ C_gc_out \/ C_gc_ret
    \/ C_load \/ C_rm_size \/ C_rm_first \/ C_rm_out
    \/ C_read_call \/ C_r_load \/ C_r_first \/ C_r_out

Next == Producer \/ Consumer

\* Any interleaving of the producer's and the consumer's field accesses.
Spec == Init /\ [][Next]_vars

\* A side is inside a call of the FifoDataport from the call to its return;
\* between getContiguous[Free] and remove / add it holds a window but is in no call.
InCall(q) == q.pc \notin {"idle", "store", "load", "abort"}

\* Calls that do not overlap: a side steps only while the other is in no call.
NextSeq == (~InCall(c) /\ Producer) \/ (~InCall(p) /\ Consumer)

InitSeq == InitShared /\ StreamsUnused /\ mode = "sequential" /\ ndebug \in BOOLEAN

SpecSeq == InitSeq /\ [][NextSeq]_vars

\* ------------------------------------------------ the counters' wrap
\* The dataport after WrapStart bytes have gone through it and were all
\* removed: in = out = WrapStart, one below the wrap of size_t, and both
\* indices at WrapStart modulo the capacity.  The histories start here.
WrapStart == CounterMod - 1

InitWrap ==
    /\ capacity \in 1 .. WrapCapacity
    /\ in = WrapStart /\ out = WrapStart
    /\ first = WrapStart % capacity /\ last = WrapStart % capacity
    /\ data = [j \in 0 .. capacity - 1 |-> 0]
    /\ seen = [in |-> in, out |-> out, data |-> data]
    /\ p = PIdle
    /\ c = CIdle
    /\ stored = <<>>
    /\ loaded = <<>>
    /\ hist = <<>>
    /\ StreamsUnused /\ mode = "sequential" /\ ndebug \in BOOLEAN

\* Calls that do not overlap, made across the wrap of in and out.
SpecWrap == InitWrap /\ [][NextSeq]_vars

\* ------------------------------------------------------- relaxed memory
\* The stores are plain stores with no barrier between them, so the peer may
\* see them in any order: each store becomes visible to the peer on its own.
PropagateIn ==
    /\ mode = "relaxed"
    /\ seen.in # in
    /\ seen' = [seen EXCEPT !.in = in]
    /\ UNCHANGED <<capacity, in, out, first, last, data, mode, ndebug, Streams, p, c,
                   stored, loaded, hist>>

PropagateOut ==
    /\ mode = "relaxed"
    /\ seen.out # out
    /\ seen' = [seen EXCEPT !.out = out]
    /\ UNCHANGED <<capacity, in, out, first, last, data, mode, ndebug, Streams, p, c,
                   stored, loaded, hist>>

PropagateData ==
    /\ mode = "relaxed"
    /\ \E s \in DOMAIN data :
          /\ seen.data[s] # data[s]
          /\ seen' = [seen EXCEPT !.data[s] = data[s]]
    /\ UNCHANGED <<capacity, in, out, first, last, data, mode, ndebug, Streams, p, c,
                   stored, loaded, hist>>

InitRelaxed == InitShared /\ StreamsUnused /\ mode = "relaxed" /\ ndebug \in BOOLEAN

\* The window calls (getContiguousFree, add, getContiguous, remove), which are
\* the ones two components make on a shared dataport, and the propagation of
\* the stores.
NextRelaxed ==
    \/ P_getContiguousFree_call \/ P_gcf_in \/ P_gcf_out \/ P_gcf_ret
    \/ P_store \/ P_add_free \/ P_add_last \/ P_add_in
    \/ C_getContiguous_call \/ C_gc_in \/ C_gc_out \/ C_gc_ret
    \/ C_load \/ C_rm_size \/ C_rm_first \/ C_rm_out
    \/ PropagateIn \/ PropagateOut \/ PropagateData

SpecRelaxed == InitRelaxed /\ [][NextRelaxed]_vars

\* ------------------------------------------- callers that break the contract
\* FifoDataport_remove called with any amount, whatever window the caller got:
\* getSize and the check of the amount.  The consumer keeps the values of in,
\* out and first it found.  A failed assert() ends a debug build; a release
\* build has logged the error and goes on to the update.
C_remove_any ==
    /\ c.pc = "idle"
    /\ out < MaxTotal
    /\ \E n \in 0 .. capacity :
          LET used == CharFifo_getSize(seen.in, out)
          IN  c' = [CIdle EXCEPT !.op = "remove", !.amount = n, !.in = seen.in,
                                 !.out = out, !.first = first,
                                 !.pc = IF n > used /\ ~ndebug THEN "abort" ELSE "rm_first"]
    /\ UNCHANGED <<Shared, mode, ndebug, Streams, p, stored, loaded, hist>>

\* FifoDataport_add called with any amount: getFree (with its assertion) and
\* the check of the amount.  The producer keeps the values of in, out and last
\* it found.
P_add_any ==
    /\ p.pc = "idle"
    /\ in < MaxTotal
    /\ \E n \in 0 .. capacity :
          LET used == CharFifo_getSize(in, seen.out)
              free == FifoDataport_getFree(capacity, in, seen.out)
          IN  p' = [PIdle EXCEPT !.op = "add", !.amount = n, !.in = in,
                                 !.out = seen.out, !.buffer = last,
                                 !.pc = IF (used > capacity \/ n > free) /\ ~ndebug
                                        THEN "abort" ELSE "add_last"]
    /\ UNCHANGED <<Shared, mode, ndebug, Streams, c, stored, loaded, hist>>

NextAnyAmount ==
    \/ P_add_any \/ P_add_last \/ P_add_in
    \/ C_remove_any \/ C_rm_first \/ C_rm_out

\* add and remove with amounts the caller picks freely, in both builds.
SpecAnyAmount == Init /\ [][NextAnyAmount]_vars

\* ------------------------------------------- callers that keep the contract
\* FifoDataport_add with any amount <= getFree, FifoDataport_remove with any
\* amount <= getSize, whatever window the caller got.
P_add_within ==
    /\ P_add_any
    /\ p'.amount <= FifoDataport_getFree(capacity, in, seen.out)

C_remove_within ==
    /\ C_remove_any
    /\ c'.amount <= CharFifo_getSize(seen.in, out)

\* The queries of the FifoDataport; a bool is returned as 0 or 1.
Queries == {"isEmpty", "isFull", "getSize", "getFree", "getCapacity"}

Bool(b) == IF b THEN 1 ELSE 0

FifoDataport_query(q, cap, i, o) ==
    CASE q = "isEmpty" -> Bool(CharFifo_isEmpty(i, o))
      [] q = "isFull" -> Bool(CharFifo_isFull(i, o, cap))
      [] q = "getSize" -> CharFifo_getSize(i, o)
      [] q = "getFree" -> FifoDataport_getFree(cap, i, o)
      [] q = "getCapacity" -> cap

\* Faulty variant of a query of the producer: it moves last.
P_query_movesLast ==
    /\ p.pc = "idle"
    /\ last' = CharFifo_next(last, capacity)
    /\ \E q \in Queries :
          /\ (p.op = q => p.calls < MaxCalls)
          /\ p' = [PIdle EXCEPT !.op = q, !.in = in, !.out = seen.out,
                                !.ret = FifoDataport_query(q, capacity, in, seen.out),
                                !.calls = IF p.op = q THEN p.calls + 1 ELSE 1]
    /\ UNCHANGED <<capacity, in, out, first, data, seen, mode, ndebug, Streams, c,
                   stored, loaded, hist>>

\* A query made by the producer, by the consumer: each reads its own counter
\* and the peer's.  The assertion used <= capacity of getFree ends a debug
\* build when it fails.
P_query ==
    /\ p.pc = "idle"
    /\ \E q \in Queries :
          /\ (p.op = q => p.calls < MaxCalls)
          /\ p' = [PIdle EXCEPT !.op = q, !.in = in, !.out = seen.out,
                                !.ret = FifoDataport_query(q, capacity, in, seen.out),
                                !.calls = IF p.op = q THEN p.calls + 1 ELSE 1,
                                !.pc = IF q = "getFree" /\ ~ndebug
                                          /\ CharFifo_getSize(in, seen.out) > capacity
                                       THEN "abort" ELSE "idle"]
    /\ UNCHANGED <<Shared, mode, ndebug, Streams, c, stored, loaded, hist>>

C_query ==
    /\ c.pc = "idle"
    /\ \E q \in Queries :
          /\ (c.op = q => c.calls < MaxCalls)
          /\ c' = [CIdle EXCEPT !.op = q, !.in = seen.in, !.out = out,
                                !.ret = FifoDataport_query(q, capacity, seen.in, out),
                                !.calls = IF c.op = q THEN c.calls + 1 ELSE 1,
                                !.pc = IF q = "getFree" /\ ~ndebug
                                          /\ CharFifo_getSize(seen.in, out) > capacity
                                       THEN "abort" ELSE "idle"]
    /\ UNCHANGED <<Shared, mode, ndebug, Streams, p, stored, loaded, hist>>

InitContract == Init /\ data = [j \in 0 .. capacity - 1 |-> 0]

NextContract ==
    \/ P_add_within \/ P_add_last \/ P_add_in
    \/ C_remove_within \/ C_rm_first \/ C_rm_out
    \/ P_query \/ C_query

\* add and remove with any amounts the contract allows, and the queries, under
\* any interleaving of the two sides, in both builds.
SpecContract == InitContract /\ [][NextContract]_vars

\* ------------------------------------------------ both sides keep running
\* The producer fills the windows FifoDataport_getContiguousFree gives it and
\* commits with FifoDataport_add; the consumer empties the windows
\* FifoDataport_getContiguous gives it and releases with FifoDataport_remove.
ProducerWindow ==
    \/ P_getContiguousFree_call \/ P_gcf_in \/ P_gcf_out \/ P_gcf_ret
    \/ P_store \/ P_add_free \/ P_add_last \/ P_add_in

ConsumerWindow ==
    \/ C_getContiguous_call \/ C_gc_in \/ C_gc_out \/ C_gc_ret
    \/ C_load \/ C_rm_size \/ C_rm_first \/ C_rm_out

NextWindow == ProducerWindow \/ ConsumerWindow

\* Both sides keep running: the producer offers bytes as long as it has any,
\* the consumer keeps asking for them.
SpecFair ==
    InitContract /\ [][NextWindow]_vars /\ WF_vars(ProducerWindow) /\ WF_vars(ConsumerWindow)

\* ============================================================ InputFifoStream
\* The calls on a stream are made by one thread; whoever fills readFifo or
\* drains writeFifo runs while that thread is in no call or has ceded the
\* processor in System_delayTicks.
DataportUnused ==
    /\ capacity = 1 /\ in = 0 /\ out = 0 /\ first = 0 /\ last = 0
    /\ data = [j \in 0 .. 0 |-> 0]
    /\ seen = [in |-> 0, out |-> 0, data |-> data]
    /\ p = PIdle /\ c = CIdle
    /\ stored = <<>> /\ loaded = <<>> /\ hist = <<>>
    /\ mode = "interleaved"

\* The state of the dataport, which the calls on a stream leave alone.
Dataport == <<Shared, mode, p, c, stored, loaded, hist>>

\* Faulty variant of the loop of InputFifoStream_read: the byte is not popped.
RECURSIVE InputFifoStream_readLoop_noPop(_, _, _, _, _, _)
InputFifoStream_readLoop_noPop(f, buffer, base, readBytes, length, fifoSize) ==
    IF readBytes < length /\ readBytes < fifoSize
    THEN InputFifoStream_readLoop_noPop(f,
                                  StoreAt(buffer, base + readBytes, f.data[CharFifo_getFirst(f)]),
                                  base, readBytes + 1, length, fifoSize)
    ELSE [fifo |-> f, buffer |-> buffer, ret |-> readBytes]

\* InputFifoStream_read: fifoSize is read once, then the loop stores the first
\* byte at buffer[base + readBytes] and pops it, while readBytes < length and
\* readBytes < fifoSize.
RECURSIVE InputFifoStream_readLoop(_, _, _, _, _, _)
InputFifoStream_readLoop(f, buffer, base, readBytes, length, fifoSize) ==
    IF readBytes < length /\ readBytes < fifoSize
    THEN InputFifoStream_readLoop(CharFifo_pop(f),
                                  StoreAt(buffer, base + readBytes, f.data[CharFifo_getFirst(f)]),
                                  base, readBytes + 1, length, fifoSize)
    ELSE [fifo |-> f, buffer |-> buffer, ret |-> readBytes]

InputFifoStream_read(f, buffer, base, length) ==
    InputFifoStream_readLoop(f, buffer, base, 0, length, CharFifo_getSize(f.in, f.out))

\* A caller's buffer of n cells, nothing stored yet.
FreshBuffer(n) == [k \in 1 .. n |-> Unset]

U_read ==
    /\ u.pc = "idle"
    /\ u.calls < MaxCalls
    /\ \E length \in 0 .. MaxLen :
          LET r == InputFifoStream_read(readFifo, FreshBuffer(length), 0, length)
          IN  /\ readFifo' = r.fifo
              /\ u' = [NextCall EXCEPT !.op = "read", !.length = length, !.buffer = r.buffer,
                                    !.ret = r.ret, !.in0 = readFifo.in, !.out0 = readFifo.out]
    /\ UNCHANGED <<Dataport, ndebug, stream, writeFifo, tickCount, pushedRead, pushedWrite>>

U_available ==
    /\ u.pc = "idle"
    /\ u.calls < MaxCalls
    /\ u' = [NextCall EXCEPT !.op = "available",
                          !.ret = CharFifo_getSize(readFifo.in, readFifo.out),
                          !.in0 = readFifo.in, !.out0 = readFifo.out]
    /\ UNCHANGED <<Dataport, ndebug, stream, readFifo, writeFifo, tickCount, pushedRead, pushedWrite>>

\* Faulty variant of InputFifoStream_skip: it discards one byte only.
U_skip_one ==
    /\ u.pc = "idle"
    /\ u.calls < MaxCalls
    /\ readFifo' = CharFifo_pop(readFifo)
    /\ u' = [NextCall EXCEPT !.op = "skip", !.in0 = readFifo.in, !.out0 = readFifo.out]
    /\ UNCHANGED <<Dataport, ndebug, stream, writeFifo, tickCount, pushedRead, pushedWrite>>

U_skip ==
    /\ u.pc = "idle"
    /\ u.calls < MaxCalls
    /\ readFifo' = CharFifo_clear(readFifo)
    /\ u' = [NextCall EXCEPT !.op = "skip", !.in0 = readFifo.in, !.out0 = readFifo.out]
    /\ UNCHANGED <<Dataport, ndebug, stream, writeFifo, tickCount, pushedRead, pushedWrite>>

\* --- InputFifoStream_get
U_get_call ==
    /\ u.pc = "idle"
    /\ u.calls < MaxCalls
    /\ \E len \in 0 .. MaxLen, delims \in DelimArgs, timeoutTicks \in 0 .. MaxTimeout :
          u' = [NextCall EXCEPT !.pc = "get_loop", !.op = "get", !.length = len,
                             !.buffer = FreshBuffer(len), !.delims = delims,
                             !.timeoutTicks = timeoutTicks, !.timeBase = tickCount,
                             !.in0 = readFifo.in, !.out0 = readFifo.out]
    /\ UNCHANGED <<Dataport, ndebug, stream, readFifo, writeFifo, tickCount, pushedRead, pushedWrite>>

\* System_getTickCount() - timeBase on the unsigned tick type.
Elapsed == (tickCount - u.timeBase) % TickMod

\* Faulty variants of the condition of the while loop: the timeout is tested
\* also when timeoutTicks is 0; the loop gives up one tick early.
GetContinues_alwaysTimed ==
    /\ u.i < u.length
    /\ ~u.foundDelim
    /\ Elapsed < u.timeoutTicks

GetContinues_early ==
    /\ u.i < u.length
    /\ ~u.foundDelim
    /\ (u.timeoutTicks = 0 \/ Elapsed + 1 < u.timeoutTicks)

\* Faulty variant of the condition of the while loop: i is not compared with len.
GetContinues_noLen ==
    /\ ~u.foundDelim
    /\ (u.timeoutTicks = 0 \/ Elapsed < u.timeoutTicks)

\* The condition of the while loop.
GetContinues ==
    /\ u.i < u.length
    /\ ~u.foundDelim
    /\ (u.timeoutTicks = 0 \/ Elapsed < u.timeoutTicks)

\* One pass of the loop body up to the delay: read one byte into buff[i]; a
\* delimiter is overwritten by 0 and ends the loop, any other byte is counted;
\* with nothing read the thread goes to System_delayTicks(1).
U_get_body ==
    /\ u.pc = "get_loop"
    /\ GetContinues
    /\ LET r == InputFifoStream_read(readFifo, u.buffer, u.i, 1)
       IN  /\ readFifo' = r.fifo
           /\ u' = IF r.ret > 0
                   THEN IF u.delims # NullStr
                        THEN IF strchr(u.delims, r.buffer[u.i + 1]) # NullPtr
                             THEN [u EXCEPT !.foundDelim = TRUE,
                                            !.buffer = StoreAt(r.buffer, u.i, 0)]
                             ELSE [u EXCEPT !.buffer = r.buffer, !.i = u.i + 1]
                        ELSE [u EXCEPT !.buffer = r.buffer, !.i = u.i + 1]
                   ELSE [u EXCEPT !.pc = "get_delay"]
    /\ UNCHANGED <<Dataport, ndebug, stream, writeFifo, tickCount, pushedRead, pushedWrite>>

\* System_delayTicks(1): the thread is back after one tick.
U_get_delay ==
    /\ u.pc = "get_delay"
    /\ tickCount' = (tickCount + 1) % TickMod
    /\ u' = [u EXCEPT !.pc = "get_loop"]
    /\ UNCHANGED <<Dataport, ndebug, stream, readFifo, writeFifo, pushedRead, pushedWrite>>

\* The loop has ended: return (foundDelim || i == len) ? i : EOF.
U_get_ret ==
    /\ u.pc = "get_loop"
    /\ ~GetContinues
    /\ u' = [u EXCEPT !.pc = "idle",
                      !.ret = IF u.foundDelim \/ u.i = u.length THEN u.i ELSE EOF_]
    /\ UNCHANGED <<Dataport, ndebug, stream, readFifo, writeFifo, tickCount, pushedRead, pushedWrite>>

\* Time passes while a get with a timeout runs (at other moments nothing
\* looks at the tick counter).
Tick ==
    /\ u.op = "get" /\ u.pc # "idle"
    /\ u.timeoutTicks > 0 /\ Elapsed < u.timeoutTicks
    /\ tickCount' = (tickCount + 1) % TickMod
    /\ UNCHANGED <<Dataport, ndebug, stream, readFifo, writeFifo, u, pushedRead, pushedWrite>>

\* Whoever fills readFifo pushes one byte.
Supply ==
    /\ u.pc \in {"idle", "get_delay"}
    /\ Len(pushedRead) < MaxSupply
    /\ \E b \in Chars :
          LET r == CharFifo_push(readFifo, b)
          IN  /\ r.isPushed
              /\ readFifo' = r.fifo
              /\ pushedRead' = Append(pushedRead, b)
    /\ UNCHANGED <<Dataport, ndebug, stream, writeFifo, tickCount, u, pushedWrite>>

InitInput ==
    /\ DataportUnused /\ ndebug = FALSE
    /\ \E cap \in 1 .. MaxCapacity : readFifo = EmptyFifo(cap, [j \in 0 .. cap - 1 |-> 0])
    /\ writeFifo = EmptyFifo(1, [j \in 0 .. 0 |-> 0])
    /\ tickCount = 0
    /\ u = UIdle
    /\ pushedRead = <<>>
    /\ pushedWrite = <<>>
    /\ stream = AnInputFifoStream(readFifo.capacity)

NextInput ==
    \/ U_read \/ U_available \/ U_skip
    \/ U_get_call \/ U_get_body \/ U_get_delay \/ U_get_ret
    \/ Tick \/ Supply

\* An InputFifoStream, its user and the supplier of its bytes.
SpecInput == InitInput /\ [][NextInput]_vars

\* One call of InputFifoStream_get, the last call of the user, where the
\* thread inside the call keeps running (it is scheduled again after every
\* System_delayTicks).
InitGet ==
    /\ DataportUnused /\ ndebug = FALSE
    /\ \E cap \in 1 .. MaxCapacity : readFifo = EmptyFifo(cap, [j \in 0 .. cap - 1 |-> 0])
    /\ writeFifo = EmptyFifo(1, [j \in 0 .. 0 |-> 0])
    /\ tickCount = 0
    /\ u = [UIdle EXCEPT !.calls = MaxCalls - 1]
    /\ pushedRead = <<>>
    /\ pushedWrite = <<>>
    /\ stream = AnInputFifoStream(readFifo.capacity)

NextGet ==
    \/ U_get_call \/ U_get_body \/ U_get_delay \/ U_get_ret
    \/ Tick \/ Supply

SpecGetFair ==
    InitGet /\ [][NextGet]_vars /\ WF_vars(U_get_body \/ U_get_delay \/ U_get_ret)

\* ================================================================ FifoStream
\* The loop of FifoStream_write: push buffer[i] for i < written.  ok records
\* that every push succeeded (Debug_ASSERT(isPushed)), pushed the bytes that
\* went into the FIFO.
RECURSIVE FifoStream_writeLoop(_, _, _, _, _, _)
FifoStream_writeLoop(f, buffer, i, written, ok, pushed) ==
    IF i < written
    THEN LET r == CharFifo_push(f, buffer[i + 1])
         IN  FifoStream_writeLoop(r.fifo, buffer, i + 1, written, ok /\ r.isPushed,
                                  IF r.isPushed THEN Append(pushed, buffer[i + 1]) ELSE pushed)
    ELSE [fifo |-> f, ret |-> written, ok |-> ok, pushed |-> pushed]

\* Faulty variant of FifoStream_write: the free space is not looked at.
FifoStream_write_all(f, buffer, length) ==
    FifoStream_writeLoop(f, buffer, 0, length, TRUE, <<>>)

\* FifoStream_write: with length > 0, free = capacity - size on size_t and
\* written = min(length, free); with length = 0 nothing is done.
FifoStream_write(f, buffer, length) ==
    IF length > 0
    THEN LET size == CharFifo_getSize(f.in, f.out)
             free == (f.capacity - size) % CounterMod
             written == IF length < free THEN length ELSE free
         IN  FifoStream_writeLoop(f, buffer, 0, written, TRUE, <<>>)
    ELSE [fifo |-> f, ret |-> 0, ok |-> TRUE, pushed |-> <<>>]

\* A failed Debug_ASSERT ends a debug build.
U_write ==
    /\ u.pc = "idle"
    /\ u.calls < MaxCalls
    /\ \E buffer \in CharSeqs(0, MaxLen) :
          LET r == FifoStream_write(writeFifo, buffer, Len(buffer))
          IN  /\ writeFifo' = r.fifo
              /\ pushedWrite' = pushedWrite \o r.pushed
              /\ u' = [NextCall EXCEPT !.op = "write", !.src = buffer, !.length = Len(buffer),
                                       !.ret = r.ret, !.in0 = writeFifo.in, !.out0 = writeFifo.out,
                                       !.pc = IF ~r.ok /\ ~ndebug THEN "abort" ELSE "idle"]
    /\ UNCHANGED <<Dataport, ndebug, stream, readFifo, tickCount, pushedRead>>

\* Faulty variant of FifoStream_flush: it empties writeFifo and returns.
FifoStream_flush_clears(entry) ==
    /\ writeFifo' = CharFifo_clear(writeFifo)
    /\ u' = [NextCall EXCEPT !.op = entry, !.in0 = writeFifo.in, !.out0 = writeFifo.out]
    /\ UNCHANGED <<Dataport, ndebug, stream, readFifo, tickCount, pushedRead, pushedWrite>>

\* FifoStream_flush, entered through the vtable's flush or close:
\* Debug_LOG_FATAL and Debug_ASSERT(false), which ends a debug build; a
\* release build returns.
FifoStream_flush(entry) ==
    /\ u' = [NextCall EXCEPT !.op = entry, !.in0 = writeFifo.in, !.out0 = writeFifo.out,
                             !.fatal = TRUE,
                             !.pc = IF ~ndebug THEN "abort" ELSE "idle"]
    /\ UNCHANGED <<Dataport, ndebug, stream, readFifo, writeFifo, tickCount, pushedRead, pushedWrite>>

U_flush ==
    /\ u.pc = "idle"
    /\ u.calls < MaxCalls
    /\ FifoStream_flush("flush")

\* Whoever drains writeFifo pops one byte.
Drain ==
    /\ u.pc = "idle"
    /\ ~CharFifo_isEmpty(writeFifo.in, writeFifo.out)
    /\ writeFifo' = CharFifo_pop(writeFifo)
    /\ UNCHANGED <<Dataport, ndebug, stream, readFifo, tickCount, u, pushedRead, pushedWrite>>

InitOutput ==
    /\ DataportUnused /\ ndebug \in BOOLEAN
    /\ readFifo = EmptyFifo(1, [j \in 0 .. 0 |-> 0])
    /\ \E cap \in 1 .. MaxCapacity : writeFifo = EmptyFifo(cap, [j \in 0 .. cap - 1 |-> 0])
    /\ tickCount = 0
    /\ u = UIdle
    /\ pushedRead = <<>>
    /\ pushedWrite = <<>>
    /\ stream = AFifoStream(writeFifo.capacity, readFifo.capacity)

NextOutput == U_write \/ U_flush \/ Drain

\* The outbound side of a FifoStream, its user and the drainer of its bytes,
\* in both builds.
SpecOutput == InitOutput /\ [][NextOutput]_vars

\* ============================================ construction and dispatch
\* A CharFifo no constructor has succeeded on.
NoFifo == [capacity |-> 0, in |-> 0, out |-> 0, first |-> 0, last |-> 0, data |-> <<>>]

\* CharFifo_ctor fails on capacity 0; else the FIFO is empty over the buffer.
CharFifo_ctor(f, capacity_) ==
    IF capacity_ = 0
    THEN [fifo |-> f, retval |-> FALSE]
    ELSE [fifo |-> EmptyFifo(capacity_, [j \in 0 .. capacity_ - 1 |-> 0]), retval |-> TRUE]

\* CharFifo_dtor releases what the elements hold: nothing, for bytes.
CharFifo_dtor(f) == f

\* InputFifoStream_ctor: the vtable is stored only when CharFifo_ctor succeeded.
InputFifoStream_ctor(st, f, readBufSize) ==
    LET r == CharFifo_ctor(f, readBufSize)
    IN  IF ~r.retval
        THEN [stream |-> st, readFifo |-> f, retval |-> FALSE]
        ELSE [stream |-> [st EXCEPT !.vtable = "InputFifoStream_vtable",
                                    !.built = @ \cup {"readFifo"}],
              readFifo |-> r.fifo, retval |-> TRUE]

InputFifoStream_dtor(f) == CharFifo_dtor(f)

\* The object after CharFifo_dtor was called on its member of that name.
DtorCalled(st, member) == [st EXCEPT !.destroyed = Append(@, member)]

\* Faulty variant of FifoStream_ctor: the vtable is stored before the FIFOs
\* are constructed.
FifoStream_ctor_vtableFirst(st, wf, rf, writeBufSize, readBufSize) ==
    LET w == CharFifo_ctor(wf, writeBufSize)
        st1 == [st EXCEPT !.vtable = "FifoStream_vtable",
                          !.built = IF w.retval THEN @ \cup {"writeFifo"} ELSE @]
    IN  IF ~w.retval
        THEN [stream |-> st1, writeFifo |-> wf, readFifo |-> rf, retval |-> FALSE]
        ELSE LET r == InputFifoStream_ctor(st1, rf, readBufSize)
             IN  IF ~r.retval
                 THEN [stream |-> DtorCalled(st1, "readFifo"), writeFifo |-> w.fifo,
                       readFifo |-> InputFifoStream_dtor(r.readFifo), retval |-> FALSE]
                 ELSE [stream |-> st1, writeFifo |-> w.fifo, readFifo |-> r.readFifo,
                       retval |-> TRUE]

\* FifoStream_ctor: error1 when writeFifo cannot be constructed; error2, which
\* calls InputFifoStream_dtor (CharFifo_dtor on readFifo), when the parent
\* cannot; else the vtable the parent stored is replaced by FifoStream_vtable.
FifoStream_ctor(st, wf, rf, writeBufSize, readBufSize) ==
    LET w == CharFifo_ctor(wf, writeBufSize)
    IN  IF ~w.retval
        THEN [stream |-> st, writeFifo |-> wf, readFifo |-> rf, retval |-> FALSE]
        ELSE LET r == InputFifoStream_ctor([st EXCEPT !.built = @ \cup {"writeFifo"}],
                                           rf, readBufSize)
             IN  IF ~r.retval
                 THEN [stream |-> DtorCalled(r.stream, "readFifo"), writeFifo |-> w.fifo,
                       readFifo |-> InputFifoStream_dtor(r.readFifo), retval |-> FALSE]
                 ELSE [stream |-> [r.stream EXCEPT !.vtable = "FifoStream_vtable"],
                       writeFifo |-> w.fifo, readFifo |-> r.readFifo, retval |-> TRUE]

\* The caller constructs the object, once, as an InputFifoStream ...
U_InputFifoStream_ctor ==
    /\ stream.ctor = "none"
    /\ \E readBufSize \in 0 .. MaxCapacity :
          LET r == InputFifoStream_ctor(stream, readFifo, readBufSize)
          IN  /\ readFifo' = r.readFifo
              /\ stream' = [r.stream EXCEPT !.ctor = "InputFifoStream_ctor",
                                            !.retval = r.retval,
                                            !.readBufSize = readBufSize]
    /\ UNCHANGED <<Dataport, ndebug, writeFifo, tickCount, u, pushedRead, pushedWrite>>

\* ... or as a FifoStream.
U_FifoStream_ctor ==
    /\ stream.ctor = "none"
    /\ \E writeBufSize \in 0 .. MaxCapacity, readBufSize \in 0 .. MaxCapacity :
          LET r == FifoStream_ctor(stream, writeFifo, readFifo, writeBufSize, readBufSize)
          IN  /\ readFifo' = r.readFifo
              /\ writeFifo' = r.writeFifo
              /\ stream' = [r.stream EXCEPT !.ctor = "FifoStream_ctor", !.retval = r.retval,
                                            !.writeBufSize = writeBufSize,
                                            !.readBufSize = readBufSize]
    /\ UNCHANGED <<Dataport, ndebug, tickCount, u, pushedRead, pushedWrite>>

\* The write of an InputFifoStream: it does not know how to write.
write(f, buffer, length) == [fifo |-> f, ret |-> 0, ok |-> TRUE, pushed |-> <<>>]

\* The flush of an InputFifoStream, entered through the vtable's flush or close.
flush(entry) ==
    /\ u' = [NextCall EXCEPT !.op = entry, !.in0 = writeFifo.in, !.out0 = writeFifo.out]
    /\ UNCHANGED <<Dataport, ndebug, stream, readFifo, writeFifo, tickCount, pushedRead, pushedWrite>>

\* self->vtable->write(self, buffer, length)
Stream_write(st, f, buffer, length) ==
    IF st.vtable = "FifoStream_vtable"
    THEN FifoStream_write(f, buffer, length)
    ELSE write(f, buffer, length)

\* The calls of Stream.h on an object whose constructor returned true.
U_Stream_write ==
    /\ u.pc = "idle"
    /\ u.calls < MaxCalls
    /\ stream.retval
    /\ \E buffer \in CharSeqs(0, MaxLen) :
          LET r == Stream_write(stream, writeFifo, buffer, Len(buffer))
          IN  /\ writeFifo' = r.fifo
              /\ pushedWrite' = pushedWrite \o r.pushed
              /\ u' = [NextCall EXCEPT !.op = "write", !.src = buffer, !.length = Len(buffer),
                                       !.ret = r.ret, !.in0 = writeFifo.in, !.out0 = writeFifo.out,
                                       !.pc = IF ~r.ok /\ ~ndebug THEN "abort" ELSE "idle"]
    /\ UNCHANGED <<Dataport, ndebug, stream, readFifo, tickCount, pushedRead>>

U_Stream_flush ==
    /\ u.pc = "idle"
    /\ u.calls < MaxCalls
    /\ stream.retval
    /\ IF stream.vtable = "FifoStream_vtable" THEN FifoStream_flush("flush") ELSE flush("flush")

U_Stream_close ==
    /\ u.pc = "idle"
    /\ u.calls < MaxCalls
    /\ stream.retval
    /\ IF stream.vtable = "FifoStream_vtable" THEN FifoStream_flush("close") ELSE flush("close")

\* Stream_putChar: write of the one byte, then flush, both through the vtable.
U_Stream_putChar ==
    /\ u.pc = "idle"
    /\ u.calls < MaxCalls
    /\ stream.retval
    /\ \E byte \in Chars :
          LET r == Stream_write(stream, writeFifo, <<byte>>, 1)
              isFifoStream == stream.vtable = "FifoStream_vtable"
          IN  /\ writeFifo' = r.fifo
              /\ pushedWrite' = pushedWrite \o r.pushed
              /\ u' = [NextCall EXCEPT !.op = "putChar", !.src = <<byte>>, !.length = 1,
                                       !.ret = r.ret, !.in0 = writeFifo.in, !.out0 = writeFifo.out,
                                       !.fatal = isFifoStream,
                                       !.pc = IF (~r.ok \/ isFifoStream) /\ ~ndebug
                                              THEN "abort" ELSE "idle"]
    /\ UNCHANGED <<Dataport, ndebug, stream, readFifo, tickCount, pushedRead>>

\* --- Stream_writeAll
U_writeAll_call ==
    /\ u.pc = "idle"
    /\ u.calls < MaxCalls
    /\ stream.retval
    /\ \E buff \in CharSeqs(0, MaxLen) :
          u' = [NextCall EXCEPT !.pc = "wa_loop", !.op = "writeAll", !.src = buff,
                                !.length = Len(buff), !.todo = Len(buff),
                                !.in0 = writeFifo.in, !.out0 = writeFifo.out]
    /\ UNCHANGED <<Dataport, ndebug, stream, readFifo, writeFifo, tickCount, pushedRead, pushedWrite>>

\* One pass of the while loop: todo -= Stream_write(&buff[len - todo], todo),
\* and Stream_flush when todo is still > 0.  The thread does not cede the
\* processor between the passes.  i counts the passes modulo 2, which tells a
\* pass that changes nothing else from no step at all.
U_writeAll_body ==
    /\ u.pc = "wa_loop"
    /\ u.todo > 0
    /\ LET r == Stream_write(stream, writeFifo,
                             SubSeq(u.src, u.length - u.todo + 1, u.length), u.todo)
           todo == u.todo - r.ret
           flushed == todo > 0
           isFifoStream == stream.vtable = "FifoStream_vtable"
       IN  /\ writeFifo' = r.fifo
           /\ pushedWrite' = pushedWrite \o r.pushed
           /\ u' = [u EXCEPT !.todo = todo,
                             !.i = (u.i + 1) % 2,
                             !.fatal = u.fatal \/ (flushed /\ isFifoStream),
                             !.pc = IF (~r.ok \/ (flushed /\ isFifoStream)) /\ ~ndebug
                                    THEN "abort" ELSE "wa_loop"]
    /\ UNCHANGED <<Dataport, ndebug, stream, readFifo, tickCount, pushedRead>>

U_writeAll_ret ==
    /\ u.pc = "wa_loop"
    /\ u.todo = 0
    /\ u' = [u EXCEPT !.pc = "idle"]
    /\ UNCHANGED <<Dataport, ndebug, stream, readFifo, writeFifo, tickCount, pushedRead, pushedWrite>>

InitStream ==
    /\ DataportUnused /\ ndebug \in BOOLEAN
    /\ readFifo = NoFifo
    /\ writeFifo = NoFifo
    /\ tickCount = 0
    /\ u = UIdle
    /\ pushedRead = <<>>
    /\ pushedWrite = <<>>
    /\ stream = NoStream

NextStream ==
    \/ U_InputFifoStream_ctor \/ U_FifoStream_ctor
    \/ U_Stream_write \/ U_Stream_flush \/ U_Stream_close
    \/ Supply

\* A Stream object from its construction on: write, flush and close on it
\* and the supplier of its inbound bytes, in both builds.
SpecStream == InitStream /\ [][NextStream]_vars

NextPutChar ==
    \/ U_InputFifoStream_ctor \/ U_FifoStream_ctor
    \/ U_Stream_write \/ U_Stream_putChar
    \/ Drain

\* A Stream object from its construction on: write and Stream_putChar on it
\* and the drainer of its outbound bytes, in both builds.
SpecPutChar == InitStream /\ [][NextPutChar]_vars

\* Stream_writeAll on a Stream object, where the thread inside the call keeps
\* running.
NextWriteAll ==
    \/ U_InputFifoStream_ctor \/ U_FifoStream_ctor
    \/ U_Stream_write
    \/ U_writeAll_call \/ U_writeAll_body \/ U_writeAll_ret
    \/ Drain

SpecWriteAllFair ==
    InitStream /\ [][NextWriteAll]_vars /\ WF_vars(U_writeAll_body \/ U_writeAll_ret)

\* --- destruction
\* FifoStream_dtor: CharFifo_dtor on writeFifo, then the parent's destructor,
\* which calls CharFifo_dtor on readFifo.
FifoStream_dtor(st) == DtorCalled(DtorCalled(st, "writeFifo"), "readFifo")

\* Stream_dtor: the dtor of the vtable the constructor stored.
Stream_dtor(st) ==
    IF st.vtable = "FifoStream_vtable" THEN FifoStream_dtor(st)
    ELSE DtorCalled(st, "readFifo")

\* The caller destroys, once, an object whose constructor returned true. The
\* destructors leave the vtable and the FIFOs' fields as they are.
U_Stream_dtor ==
    /\ u.pc = "idle"
    /\ stream.retval
    /\ stream.destroyed = <<>>
    /\ stream' = Stream_dtor(stream)
    /\ readFifo' = InputFifoStream_dtor(readFifo)
    /\ writeFifo' = IF stream.vtable = "FifoStream_vtable"
                    THEN CharFifo_dtor(writeFifo) ELSE writeFifo
    /\ UNCHANGED <<Dataport, ndebug, tickCount, u, pushedRead, pushedWrite>>

NextLifecycle ==
    \/ U_InputFifoStream_ctor \/ U_FifoStream_ctor
    \/ U_Stream_write
    \/ U_Stream_dtor
    \/ Supply

\* A Stream object from its construction to its destruction, in both builds.
SpecLifecycle == InitStream /\ [][NextLifecycle]_vars

\* ================================================================= claims
IsPrefix(s, t) == Len(s) <= Len(t) /\ \A k \in 1 .. Len(s) : s[k] = t[k]

\* Slots holding a byte that was added and not yet removed.
Occupied == { (out + j) % capacity : j \in 0 .. (in - out) - 1 }

\* C1: under any interleaving of the producer's and the consumer's field
\* accesses, the bytes the consumer has loaded are at every moment a prefix of
\* the bytes the producer has stored: none lost, duplicated, reordered, altered.
C1_ObservedIsPrefix == IsPrefix(loaded, stored)

\* C1 witness: the consumer has loaded a whole array of bytes while the producer
\* is in the middle of a call that has stored one more (the data wraps).
C1_Witness ==
    /\ capacity > 1 /\ Len(loaded) >= capacity
    /\ Len(stored) > capacity /\ InCall(p)

\* C2: in every reachable state getSize is in - out and 0 <= in - out <= capacity.
C2_SizeBounded ==
    /\ CharFifo_getSize(in, out) = in - out
    /\ 0 <= in - out
    /\ in - out <= capacity

\* C2 witness: the channel is full after the counters have passed the
\* capacity, while the consumer is inside a call.
C2_Witness == in - out = capacity /\ in > capacity /\ InCall(c)

\* C3: while a side is in no call its index is its counter modulo the capacity;
\* with both sides idle the channel holds no unread byte exactly when in = out
\* and holds capacity unread bytes exactly when in - out = capacity.
C3_IndexInvariant ==
    /\ (~InCall(c) /\ c.pc # "abort") => first = out % capacity
    /\ (~InCall(p) /\ p.pc # "abort") => last = in % capacity
    /\ (p.pc = "idle" /\ c.pc = "idle") =>
          /\ (Len(stored) = Len(loaded)) <=> (in = out)
          /\ (Len(stored) - Len(loaded) = capacity) <=> (in - out = capacity)
          /\ CharFifo_isEmpty(in, out) <=> (Len(stored) = Len(loaded))
          /\ CharFifo_isFull(in, out, capacity) <=> (Len(stored) - Len(loaded) = capacity)

\* C3 witness: both sides idle, the channel full, and both indices wrapped.
C3_Witness ==
    /\ p.pc = "idle" /\ c.pc = "idle"
    /\ in - out = capacity /\ out > 0 /\ capacity > 1
    /\ first = out % capacity /\ last = first

\* ---- round trip, pops (calls that do not overlap: SpecSeq)
LastCall == IF hist = <<>> THEN "none" ELSE hist[Len(hist)]

\* A completed FifoDataport_write directly followed by a completed FifoDataport_read.
WriteThenRead ==
    /\ hist = <<"write", "read">>
    /\ p.pc = "idle" /\ p.op = "write"
    /\ c.pc = "idle" /\ c.op = "read"

\* The occupancy before that write: the write added p.ret, the read took c.ret.
SizeBeforeWrite == (in - out) - p.ret + c.ret

\* C4 as stated: write(s) with |s| <= free space, directly followed by read with
\* len >= |s|, returns |s| from both calls and delivers exactly s.
C4_RoundTripAnyStart ==
    (WriteThenRead /\ Len(p.src) <= capacity - SizeBeforeWrite /\ c.want >= Len(p.src))
        => (p.ret = Len(p.src) /\ c.ret = Len(p.src) /\ c.got = p.src)

\* C4 amended: the same round trip when the channel is empty before the write,
\* whatever the positions of first and last.
C4_RoundTripFromEmpty ==
    (WriteThenRead /\ SizeBeforeWrite = 0
       /\ Len(p.src) <= capacity /\ c.want >= Len(p.src))
        => (p.ret = Len(p.src) /\ c.ret = Len(p.src) /\ c.got = p.src)

\* C4 witness: a two-byte round trip from an empty channel whose data wrapped
\* past the end of the array (it started in the last slot, so first is now 1).
C4_Witness ==
    /\ WriteThenRead /\ SizeBeforeWrite = 0
    /\ Len(p.src) = 2 /\ c.want >= 2 /\ c.got = p.src
    /\ first = 1 /\ in > 2

\* CharFifo_pop n times from the indices (f, o): the indices left behind ...
RECURSIVE PopN(_, _, _, _)
PopN(f, o, cap, n) ==
    IF n = 0 THEN [first |-> f, out |-> o]
    ELSE PopN(CharFifo_next(f, cap), UpdatedCounter(o, 1), cap, n - 1)

\* ... and the bytes returned: the one in slot first, each time.
RECURSIVE PopBytes(_, _, _)
PopBytes(f, cap, n) ==
    IF n = 0 THEN <<>>
    ELSE <<data[f]>> \o PopBytes(CharFifo_next(f, cap), cap, n - 1)

\* A completed getContiguous directly followed by a completed remove of the
\* whole window.
WindowThenRemove ==
    /\ hist = <<"getContiguous", "remove">>
    /\ c.pc = "idle" /\ c.op = "remove"
    /\ c.amount = c.len

\* C5: getContiguous then remove of the returned length n leaves in, out, first
\* and last as n pops from the state before (c.in, c.out, c.first are that
\* state's), and the window's bytes are the bytes of those pops, in order.
C5_RemoveIsPops ==
    WindowThenRemove =>
        LET r == PopN(c.first, c.out, capacity, c.len)
        IN  /\ first = r.first
            /\ out = r.out
            /\ in = c.in
            /\ last = c.in % capacity
            /\ c.got = PopBytes(c.first, capacity, c.len)

\* C5 witness: a window that did not start at slot 0 and ended at the end of
\* the array, so that first wrapped to slot 0.
C5_Witness == WindowThenRemove /\ c.len >= 1 /\ first = 0 /\ c.first > 0

\* C6: getContiguous called in a quiescent state returns 0 and NULL exactly when
\* in = out, and otherwise min(size, capacity - first) and slot first; so the
\* length is <= size, and < size only when the bytes straddle the end of the array.
C6_ContiguousLength ==
    (LastCall = "getContiguous" /\ c.op = "getContiguous" /\ ~InCall(c)) =>
        LET size == in - out
        IN  /\ (c.ret = 0) <=> (size = 0)
            /\ (c.buffer = NullPtr) <=> (size = 0)
            /\ size > 0 => (c.ret = Min(size, capacity - first) /\ c.buffer = first)
            /\ c.ret <= size
            /\ c.ret < size => first + size > capacity

\* C6 witness: a window shorter than the size.
C6_Witness ==
    /\ LastCall = "getContiguous" /\ c.op = "getContiguous" /\ ~InCall(c)
    /\ c.ret > 0 /\ c.ret < in - out

\* C7: getContiguousFree called in a quiescent state returns 0 and NULL exactly
\* when out + capacity = in, and otherwise min(free, capacity - last) and slot
\* last; the length never exceeds getFree.
C7_ContiguousFreeLength ==
    (LastCall = "getContiguousFree" /\ p.op = "getContiguousFree" /\ ~InCall(p)) =>
        LET free == FifoDataport_getFree(capacity, in, out)
        IN  /\ (p.ret = 0) <=> (out + capacity = in)
            /\ (p.buffer = NullPtr) <=> (out + capacity = in)
            /\ free > 0 => (p.ret = Min(free, capacity - last) /\ p.buffer = last)
            /\ p.ret <= free

\* C7 witness: a free window shorter than the free space.
C7_Witness ==
    /\ LastCall = "getContiguousFree" /\ p.op = "getContiguousFree" /\ ~InCall(p)
    /\ p.ret > 0 /\ p.ret < FifoDataport_getFree(capacity, in, out)

\* ---- frame, windows (any interleaving: Spec)
RemoveStep ==
    c' # c /\ (c.pc \in {"rm_first", "rm_out"} \/ (c.pc = "load" /\ c'.op = "remove"))

AddStep ==
    p' # p /\ (p.pc \in {"add_last", "add_in"} \/ (p.pc = "store" /\ p'.op = "add"))

GetContiguousStep ==
    c' # c /\ (c.pc \in {"gc_in", "gc_out", "gc_ret"} \/ (c.pc = "idle" /\ c'.pc = "gc_in"))

GetContiguousFreeStep ==
    p' # p /\ (p.pc \in {"gcf_in", "gcf_out", "gcf_ret"} \/ (p.pc = "idle" /\ p'.pc = "gcf_in"))

\* C8: a step of remove changes first and out at most and leaves in, last,
\* capacity and the data unchanged; a step of add changes last and in at most
\* and leaves out, first, capacity and the data unchanged; a step of
\* getContiguous or getContiguousFree changes no field.
C8_Frame ==
    [][ /\ RemoveStep => UNCHANGED <<in, last, capacity, data>>
        /\ AddStep => UNCHANGED <<out, first, capacity, data>>
        /\ GetContiguousStep => UNCHANGED <<in, out, first, last, capacity, data>>
        /\ GetContiguousFreeStep => UNCHANGED <<in, out, first, last, capacity, data>>
      ]_vars

\* C8 witness: an add and a remove have completed and moved both pairs of fields.
C8_Witness ==
    /\ c.op = "remove" /\ c.pc = "idle" /\ p.op = "add" /\ p.pc = "idle"
    /\ out > 0 /\ first = out % capacity /\ in > out /\ last = in % capacity

\* The slots of the window the producer holds, from the return of
\* getContiguousFree to the end of add; and of the window the consumer holds,
\* from the return of getContiguous (or getFirst) to the end of remove.
WritableWindow ==
    IF p.pc \in {"store", "add_last", "add_in"}
    THEN { p.buffer + j : j \in 0 .. p.len - 1 }
    ELSE {}

ReadableWindow ==
    IF c.pc \in {"load", "rm_first", "rm_out"}
    THEN { c.buffer + j : j \in 0 .. c.len - 1 }
    ELSE IF c.pc = "r_load" THEN {c.buffer} ELSE {}

\* C9: under any interleaving the writable window holds no slot with a byte
\* added and not yet removed, the readable window holds only such slots, and
\* both lie in 0 .. capacity - 1.
C9_WindowsDisjoint ==
    /\ WritableWindow \cap Occupied = {}
    /\ ReadableWindow \subseteq Occupied
    /\ WritableWindow \subseteq 0 .. capacity - 1
    /\ ReadableWindow \subseteq 0 .. capacity - 1

\* C9 witness: both sides hold a window at once, after the indices have moved.
C9_Witness ==
    /\ p.pc = "store" /\ c.pc = "load"
    /\ WritableWindow # {} /\ ReadableWindow # {}
    /\ out > 0

\* ---- relaxed memory (SpecRelaxed)
\* C10: although the peer may see the plain stores in another order than they
\* were made, every byte the consumer loads from a readable window is the
\* byte the producer stored, in FIFO order.
C10_RelaxedTransfer ==
    \A k \in 1 .. Len(loaded) : k <= Len(stored) /\ loaded[k] = stored[k]

\* ---- capacity violations (SpecAnyAmount)
\* C11: a FifoDataport_remove(amount) with amount > size, and a
\* FifoDataport_add(amount) with amount > free, that has ended (stopped at the
\* assertion, or returned) has left out and first, respectively in and last,
\* at the values they had when the call was made, in both builds.
C11_ViolationNotApplied ==
    /\ (c.op = "remove" /\ c.pc \in {"idle", "abort"}
          /\ c.amount > CharFifo_getSize(c.in, c.out))
        => (out = c.out /\ first = c.first)
    /\ (p.op = "add" /\ p.pc \in {"idle", "abort"}
          /\ p.amount > FifoDataport_getFree(capacity, p.in, p.out))
        => (in = p.in /\ last = p.buffer)

\* ---- InputFifoStream (SpecInput)
\* The bytes readFifo held when the user's call was made, oldest first.
HeldAtCall == SubSeq(pushedRead, u.out0 + 1, u.in0)

\* ch is one of the characters listed in the delimiter string.
Listed(delims, ch) == delims # NullStr /\ \E k \in 1 .. Len(delims) : delims[k] = ch

GetReturned == u.op = "get" /\ u.pc = "idle"

\* C12: a get with a delimiter string and no timeout, called when readFifo
\* holds k < len bytes that are not listed followed by a listed byte, returns k,
\* has stored exactly those k bytes, has removed the delimiter too, and leaves
\* the bytes behind it (and what came since) in readFifo in order.
C12_GetStopsAtDelimiter ==
    \A k \in 0 .. MaxLen :
        ( /\ GetReturned /\ u.delims # NullStr /\ u.timeoutTicks = 0
          /\ k < u.length /\ k + 1 <= Len(HeldAtCall)
          /\ \A j \in 1 .. k : ~Listed(u.delims, HeldAtCall[j])
          /\ Listed(u.delims, HeldAtCall[k + 1]) )
        => ( /\ u.ret = k
             /\ SubSeq(u.buffer, 1, k) = SubSeq(HeldAtCall, 1, k)
             /\ readFifo.out = u.out0 + k + 1
             /\ Content(readFifo) = SubSeq(pushedRead, u.out0 + k + 2, Len(pushedRead)) )

\* C13: a get that ended on its timeout returns the number of bytes it
\* gathered; EOF is returned only with zero bytes gathered and no delimiter.
C13_TimeoutReturnsCount ==
    GetReturned =>
        /\ (u.ret = EOF_ => (u.i = 0 /\ ~u.foundDelim))
        /\ (u.ret # EOF_ => u.ret = u.i)

\* C15: when a get with a timeout returns without len bytes and without a
\* delimiter, readFifo is empty at that moment.
C15_GivesUpOnlyWhenExhausted ==
    [][ (u.pc = "get_loop" /\ u'.pc = "idle"
           /\ u.timeoutTicks > 0 /\ ~u.foundDelim /\ u.i < u.length)
        => CharFifo_isEmpty(readFifo.in, readFifo.out) ]_vars

ReadReturned == u.op = "read" /\ u.pc = "idle"

\* C17: InputFifoStream_read returns in the step it is called in, with
\* min(length, available()) bytes, which are the oldest bytes of readFifo in
\* order; it has taken exactly these out of readFifo, so that available() is
\* the previous value minus the count until new bytes come; and available()
\* returns the number of bytes held.
C17_ReadDrainsOldest ==
    /\ u.op \in {"read", "available", "skip"} => u.pc = "idle"
    /\ ReadReturned =>
          /\ u.ret = Min(u.length, Len(HeldAtCall))
          /\ SubSeq(u.buffer, 1, u.ret) = SubSeq(HeldAtCall, 1, u.ret)
          /\ readFifo.out = u.out0 + u.ret
          /\ CharFifo_getSize(u.in0, readFifo.out) = Len(HeldAtCall) - u.ret
          /\ Content(readFifo) = SubSeq(pushedRead, readFifo.out + 1, Len(pushedRead))
    /\ (u.op = "available" /\ u.pc = "idle") =>
          (u.ret = Len(HeldAtCall) /\ readFifo.out = u.out0)

\* C17 witness: a read asked for two bytes and got the one byte held, after an
\* earlier byte had been taken.
C17_Witness == ReadReturned /\ u.length = 2 /\ u.ret = 1 /\ u.out0 >= 1

\* A call of InputFifoStream_skip, of InputFifoStream_read.
SkipStep == u'.op = "skip" /\ u'.calls = u.calls + 1
ReadStep == u'.op = "read" /\ u'.calls = u.calls + 1

\* C18: InputFifoStream_skip leaves readFifo empty, having passed every byte
\* it held; a read that follows it with nothing pushed in between returns 0;
\* and no later read or get delivers a skipped byte: every byte delivered is
\* one that is still in readFifo, so behind all that was taken or skipped.
C18_SkipDiscards ==
    [][ /\ SkipStep =>
              /\ CharFifo_getSize(readFifo'.in, readFifo'.out) = 0
              /\ readFifo'.out = readFifo.in
              /\ readFifo'.in = readFifo.in
        /\ (ReadStep /\ u.op = "skip" /\ readFifo.in = u.in0) => u'.ret = 0
        /\ readFifo'.out >= readFifo.out
        /\ ReadStep =>
              SubSeq(u'.buffer, 1, u'.ret)
                  = SubSeq(pushedRead, readFifo.out + 1, readFifo.out + u'.ret)
        /\ (u.pc = "get_loop" /\ readFifo' # readFifo) =>
              /\ readFifo'.out = readFifo.out + 1
              /\ u'.buffer[u.i + 1] \in {pushedRead[readFifo.out + 1], 0}
      ]_vars

\* C18 witness: a skip has discarded two bytes.
C18_Witness ==
    /\ u.op = "skip" /\ u.pc = "idle" /\ u.in0 = u.out0 + 2
    /\ CharFifo_getSize(readFifo.in, readFifo.out) = 0

\* ---- InputFifoStream_get, blocking (SpecGetFair)
\* The user is inside a get without a timeout, with a timeout.
InUntimedGet == u.op = "get" /\ u.pc # "idle" /\ u.timeoutTicks = 0
InTimedGet == u.op = "get" /\ u.pc # "idle" /\ u.timeoutTicks > 0

C16_TimedGetTerminates ==
    /\ (InTimedGet ~> u.pc = "idle")
    /\ [][ (u.pc = "get_loop" /\ u'.pc = "idle" /\ u.timeoutTicks > 0
              /\ ~u.foundDelim /\ u.i < u.length)
           => Elapsed >= u.timeoutTicks ]_vars

\* C16 witness: a get with a timeout has given up with one byte gathered,
\* after its timeout elapsed.
C16_Witness ==
    /\ GetReturned /\ u.timeoutTicks = MaxTimeout
    /\ u.i = 1 /\ u.length = 2 /\ ~u.foundDelim /\ Elapsed >= u.timeoutTicks

\* ---- FifoStream, outbound side (SpecOutput)
WriteReturned == u.op = "write" /\ u.pc = "idle"

\* C19: FifoStream_write returns in the step it is called in, with
\* min(length, free space of writeFifo); the bytes accepted are the first
\* bytes of the caller's buffer, appended in order; the size of writeFifo has
\* grown by the count returned and is at most the capacity; with length 0 the
\* call returns 0 and changes nothing.
C19_WriteAcceptsPrefix ==
    /\ u.op = "write" => u.pc = "idle"
    /\ WriteReturned =>
          /\ u.ret = Min(u.length, writeFifo.capacity - (u.in0 - u.out0))
          /\ writeFifo.in = u.in0 + u.ret
          /\ Len(pushedWrite) = writeFifo.in
          /\ SubSeq(pushedWrite, u.in0 + 1, u.in0 + u.ret) = SubSeq(u.src, 1, u.ret)
          /\ u.length = 0 => (u.ret = 0 /\ writeFifo.in = u.in0)
    /\ Content(writeFifo) = SubSeq(pushedWrite, writeFifo.out + 1, writeFifo.in)
    /\ CharFifo_getSize(writeFifo.in, writeFifo.out) <= writeFifo.capacity

\* C19 witness: a write of two bytes into a writeFifo of capacity 2 that held
\* one byte has accepted one byte.
C19_Witness ==
    /\ WriteReturned /\ u.length = 2 /\ u.ret = 1
    /\ writeFifo.capacity = 2 /\ u.in0 - u.out0 = 1 /\ u.in0 >= 2

\* C20: whenever FifoStream_flush returns, writeFifo is empty.
C20_FlushReturnsDrained ==
    [][ (u'.op = "flush" /\ u'.calls = u.calls + 1 /\ u'.pc = "idle")
        => CharFifo_getSize(writeFifo'.in, writeFifo'.out) = 0 ]_vars

\* ---- Stream objects (SpecStream)
\* The step is a call of flush or close on a FifoStream.
FifoStreamFlushStep ==
    /\ u'.calls = u.calls + 1 /\ u'.op \in {"flush", "close"}
    /\ stream.vtable = "FifoStream_vtable"

InWriteAll == u.op = "writeAll" /\ u.pc = "wa_loop"
WriteAllReturned == u.op = "writeAll" /\ u.pc = "idle"

\* C22: Stream_writeAll comes to an end, on an InputFifoStream and on a
\* FifoStream (it returns, or at least stops at an assertion), and when it
\* has returned the bytes accepted by the stream's write since the call are
\* the len bytes of buff, each once and in order.
C22_WriteAllCompletes ==
    /\ (InWriteAll ~> (WriteAllReturned \/ u.pc = "abort"))
    /\ [](WriteAllReturned => SubSeq(pushedWrite, u.in0 + 1, Len(pushedWrite)) = u.src)

\* ---- Stream_putChar (SpecPutChar)
\* C23: when Stream_putChar(b) on a FifoStream has returned, b has been
\* accepted: it is the last byte appended to the outbound bytes, and it was
\* appended by this call, whatever writeFifo held when the call was made.
C23_PutCharAccepted ==
    (u.op = "putChar" /\ u.pc = "idle" /\ stream.vtable = "FifoStream_vtable")
        => /\ Len(pushedWrite) = u.in0 + 1
           /\ pushedWrite[Len(pushedWrite)] = u.src[1]

\* ---- construction (SpecStream)
\* C24: FifoStream_ctor returns false whenever writeBufSize or readBufSize is
\* 0, InputFifoStream_ctor whenever readBufSize is 0, and then the object has
\* no vtable and no call is made on it; with all sizes > 0 they return true,
\* and the object has the vtable of the class constructed.
C24_CtorFailsCleanly ==
    /\ stream.ctor = "FifoStream_ctor" =>
          /\ stream.retval <=> (stream.writeBufSize > 0 /\ stream.readBufSize > 0)
          /\ stream.retval => stream.vtable = "FifoStream_vtable"
    /\ stream.ctor = "InputFifoStream_ctor" =>
          /\ stream.retval <=> stream.readBufSize > 0
          /\ stream.retval => stream.vtable = "InputFifoStream_vtable"
    /\ ~stream.retval => (stream.vtable = "none" /\ u = UIdle)

\* C24 witness: FifoStream_ctor has failed on the read buffer, after it had
\* constructed writeFifo.
C24_Witness ==
    /\ stream.ctor = "FifoStream_ctor" /\ ~stream.retval
    /\ stream.writeBufSize > 0 /\ stream.readBufSize = 0
    /\ writeFifo.capacity = stream.writeBufSize /\ stream.vtable = "none"

\* ---- queries, indices, occupancy (SpecContract)
\* The step is a query made by the producer, by the consumer.
ProducerQueryStep == p'.op \in Queries /\ p' # p
ConsumerQueryStep == c'.op \in Queries /\ c' # c

\* C25: a query (isEmpty, isFull, getSize, getFree, getCapacity) changes no
\* field of the dataport; a query repeated with in and out as they were at the
\* same query before (nothing added or removed in between) returns the same
\* result; and no step changes the capacity.
C25_QueriesPure ==
    [][ /\ (ProducerQueryStep \/ ConsumerQueryStep)
              => UNCHANGED <<capacity, in, out, first, last, data>>
        /\ (ProducerQueryStep /\ p'.op = p.op /\ in = p.in /\ out = p.out)
              => p'.ret = p.ret
        /\ (ConsumerQueryStep /\ c'.op = c.op /\ in = c.in /\ out = c.out)
              => c'.ret = c.ret
        /\ capacity' = capacity ]_vars

\* C25 witness: isFull asked again on a full channel whose indices have
\* moved, and getSize asked again by the other side.
C25_Witness ==
    /\ p.op = "isFull" /\ p.calls >= 2 /\ p.ret = 1 /\ out > 0
    /\ c.op = "getSize" /\ c.calls >= 2 /\ c.ret = capacity

\* C26: with amounts within getSize and getFree, first and last are slots of
\* the array in every state, between the two stores of an add or remove too;
\* and the index an add or remove is about to store is below the capacity
\* after the one conditional subtraction.
C26_IndicesInRange ==
    /\ first \in 0 .. capacity - 1
    /\ last \in 0 .. capacity - 1
    /\ c.pc = "rm_first" =>
          /\ first + c.amount < 2 * capacity
          /\ UpdatedIndex(first, c.amount, capacity) \in 0 .. capacity - 1
    /\ p.pc = "add_last" =>
          /\ last + p.amount < 2 * capacity
          /\ UpdatedIndex(last, p.amount, capacity) \in 0 .. capacity - 1

\* C26 witness: the producer is between the two stores of an add, made after
\* a remove had moved first, of an amount that reaches past the end of the
\* array (more than a window holds), so that last wrapped.
C26_Witness ==
    /\ p.pc = "add_in" /\ out > 0 /\ first > 0
    /\ p.buffer + p.amount > capacity /\ last = p.buffer + p.amount - capacity

\* C27: the occupancy either side computes from its own counter and the
\* peer's is at most the capacity, also from the value of the peer's counter
\* it read at its last call; so the assertion used <= capacity of getFree
\* never fails: no side has stopped at it.
C27_FreeAssertionHolds ==
    /\ CharFifo_getSize(in, seen.out) <= capacity
    /\ CharFifo_getSize(seen.in, out) <= capacity
    /\ p.op # "none" => CharFifo_getSize(in, p.out) <= capacity
    /\ c.op # "none" => CharFifo_getSize(c.in, out) <= capacity
    /\ p.pc # "abort" /\ c.pc # "abort"

\* C27 witness: the consumer has asked getFree while the producer was between
\* the two stores of the add that fills the channel.
C27_Witness ==
    /\ c.op = "getFree" /\ c.pc = "idle" /\ p.pc = "add_in"
    /\ c.ret = capacity - (in - out) /\ c.ret > 0
    /\ (in - out) + p.amount = capacity /\ out > 0

\* ---- the peer's index (Spec)
\* What FifoDataport_getContiguous and FifoDataport_getContiguousFree return
\* when called in the current state.
ReadableNow == FifoDataport_getContiguous(in, out, first, capacity)
FreeNow == FifoDataport_getContiguousFree(capacity, in, out, last)

\* C28: of two states that agree on in, out, first and capacity and differ in
\* the stored last, getContiguous returns the same pointer and length; of two
\* states that agree on in, out, last and capacity and differ in the stored
\* first, getContiguousFree returns the same pointer and length.  The pairs of
\* states are those before and after a store to last, to first.
C28_PeerIndexIgnored ==
    [][ /\ (last' # last /\ UNCHANGED <<in, out, first, capacity>>)
              => ReadableNow' = ReadableNow
        /\ (first' # first /\ UNCHANGED <<in, out, last, capacity>>)
              => FreeNow' = FreeNow ]_vars

\* C28 witness: the consumer holds a window it got while the producer was
\* between its store to last and its store to in; the stored last would have
\* given another length.
C28_Witness ==
    /\ c.pc = "load" /\ c.got = <<>> /\ p.pc = "add_in" /\ c.in = in
    /\ last # in % capacity
    /\ c.len # (IF first < last THEN last - first ELSE capacity - first)

\* ---- the counters' wrap (SpecWrap)
\* in has passed 2^CounterBits.
Wrapped == in < WrapStart

\* C29: in every quiescent state after in has wrapped, for every capacity,
\* (in - out) mod 2^CounterBits is the number of bytes stored and not yet
\* loaded, in mod capacity is the stored last and out mod capacity the stored
\* first, and the window accessors return min(size, capacity - first) and
\* min(free, capacity - last).
C29_WrapPreservesInvariants ==
    (Wrapped /\ p.pc = "idle" /\ c.pc = "idle") =>
        LET size == CharFifo_getSize(in, out)
            free == FifoDataport_getFree(capacity, in, out)
        IN  /\ size = Len(stored) - Len(loaded)
            /\ in % capacity = last
            /\ out % capacity = first
            /\ FifoDataport_getContiguous(in, out, first, capacity).len
                  = Min(size, capacity - first)
            /\ FifoDataport_getContiguousFree(capacity, in, out, last).len
                  = Min(free, capacity - last)

\* ---- delimiters (SpecInput)
\* C30: the byte a pass of InputFifoStream_get has read is treated as a
\* delimiter exactly when it is one of the characters listed in delims (never
\* with delims = NULL); every other byte, the byte 0 included, is stored in
\* buff and counted.
C30_DelimiterExactlyWhenListed ==
    [][ (u.pc = "get_loop" /\ readFifo' # readFifo) =>
          LET b == readFifo.data[readFifo.first]
          IN  /\ u'.foundDelim <=> Listed(u.delims, b)
              /\ ~Listed(u.delims, b) => (u'.i = u.i + 1 /\ u'.buffer[u.i + 1] = b) ]_vars

\* The bytes the running or last call of the user has taken out of readFifo.
RemovedByCall == (readFifo.out - u.out0) % CounterMod

\* C31: in a call of InputFifoStream_get, at every moment, the caller's buffer
\* has been stored to below index len only; the bytes the call has removed from
\* readFifo are the i bytes counted plus the delimiter if one was found, at most
\* len in all; the j-th byte removed is in buff[j - 1], j - 1 < len (0 stands
\* there instead of the delimiter); and a call with len = 0 never reads, never
\* delays, removes nothing and returns 0.
C31_GetStaysInBuffer ==
    u.op = "get" =>
        /\ Len(u.buffer) = u.length
        /\ RemovedByCall = u.i + (IF u.foundDelim THEN 1 ELSE 0)
        /\ RemovedByCall <= u.length
        /\ \A j \in 1 .. RemovedByCall :
              /\ j <= u.length
              /\ u.buffer[j] = (IF u.foundDelim /\ j = RemovedByCall
                                THEN 0 ELSE pushedRead[u.out0 + j])
        /\ u.length = 0 =>
              /\ u.pc # "get_delay"
              /\ u.pc = "idle" => u.ret = 0

\* A get with len = 2 has returned after removing two bytes, the second of them
\* a delimiter, which it has overwritten by 0 in the last cell of the buffer.
C31_Witness ==
    /\ GetReturned /\ u.length = 2 /\ u.foundDelim /\ u.i = 1
    /\ RemovedByCall = 2 /\ u.buffer[2] = 0 /\ u.buffer[1] # 0

\* The number of calls of CharFifo_dtor on a member of the object.
DtorCalls(member) ==
    Cardinality({k \in 1 .. Len(stream.destroyed) : stream.destroyed[k] = member})

FifoStreamCtorFailed == stream.ctor = "FifoStream_ctor" /\ ~stream.retval

\* C32: when FifoStream_ctor has returned false, each member FIFO it had
\* constructed has been destroyed exactly once and no other member FIFO has
\* been destroyed: after a failure of the read side, writeFifo has been
\* destroyed and readFifo has not.
C32_FailedCtorCleansUp ==
    FifoStreamCtorFailed =>
        \A member \in {"writeFifo", "readFifo"} :
            DtorCalls(member) = (IF member \in stream.built THEN 1 ELSE 0)

\* The two views of one state of the dataport: what FifoDataport_getContiguous
\* and FifoDataport_getContiguousFree return when both read in and out now.
ConsumerSeesEmpty == FifoDataport_getContiguous(in, out, first, capacity).len = 0
ProducerSeesFull == FifoDataport_getContiguousFree(capacity, in, out, last).len = 0

\* C33: in no state does the consumer see the FIFO empty while the producer
\* sees it full; and when both sides keep running, every byte the producer
\* has committed (in has counted it) is eventually loaded and removed by the
\* consumer (out has counted it).
C33_NeverStuck ==
    /\ [](~(ConsumerSeesEmpty /\ ProducerSeesFull))
    /\ \A k \in 1 .. MaxTotal : (in >= k) ~> (out >= k /\ Len(loaded) >= k)

\* More bytes than the FIFO holds have gone through it, so it was full on the
\* way, and all of them were read in order; nothing is left and nobody is in a call.
C33_Witness ==
    /\ capacity < MaxTotal /\ in = MaxTotal /\ out = MaxTotal
    /\ loaded = stored /\ Len(stored) = MaxTotal
    /\ p.pc = "idle" /\ c.pc = "idle"
    /\ ProducerSeesFull = FALSE /\ ConsumerSeesEmpty
====
